---- MODULE Spec2Model ----
(***************************************************************************)
(* pr-train: a chain of dependent branches (a "train") that is reflowed    *)
(* (merge or rebase of every branch onto its predecessor) and published as *)
(* a sequence of GitHub pull requests carrying a table of contents.        *)
(*                                                                         *)
(* Three specifications share the variables of the module:                 *)
(*   SpecReflow  PRTrainClient.reflowTrain over GitClient.combineBranches  *)
(*   SpecUpsert  upsertNavigationInBody / constructTrainNavigation         *)
(*   SpecSync    PRTrainClient.ensurePrsExist, GitHubClient.ensurePrsExist *)
(* Text is a sequence of tokens; the two sentinel markers are one token    *)
(* each ("O" for <pr-train-toc>, "C" for </pr-train-toc>).                 *)
(***************************************************************************)
EXTENDS Integers, Sequences, FiniteSets, TLC

VARIABLES
  sortedTrainBranches,   \* PRTrainClient.sortedTrainBranches
  currentBranch,         \* PRTrainClient.currentBranch (HEAD at start-up)
  combinedTrainBranch,   \* PRTrainClient.combinedTrainBranch, or Undefined
  head,                  \* the branch git has checked out
  anc,                   \* commit -> the commits reachable from it (itself included)
  tip,                   \* branch -> its tip commit
  wtConflict,            \* the working tree holds an unresolved merge/rebase
  rebase,                \* strategy of the reflow run in progress
  rpc,                   \* position inside reflowTrain / combineBranches
  ri,                    \* loop index i of reflowTrain
  rlog,                  \* what the reflow run in progress did, in order
  prevOk,                \* the reflow run before it took full effect
  runs,                  \* reflow runs started so far
  failures,              \* git failures so far
  uNav,                  \* upsert: the navigation block handed in
  uBody,                 \* upsert: the PR body
  uPrev,                 \* upsert: the body before the last upsert
  uCount,                \* upsert: upserts applied so far
  remote,                \* GitHub: head, base, title, body of PR number n at place n
  allBranches,           \* sync: the branches handed to GitHubClient.ensurePrsExist
  syncOpts,              \* sync: reviewers, draft, combined title of the run
  prDict,                \* sync: branch -> PR data, built by pass 1
  spc,                   \* sync: position inside ensurePrsExist
  si,                    \* sync: index of the pass in progress
  calls,                 \* sync: the remote calls of the run, in order
  sruns,                 \* sync runs started so far
  ppc,                   \* push: position inside findAndPushBranches
  pushOpts,              \* push: pushMerged, force, range of the command
  requested,             \* push: requestedBranches
  branchesToPush,        \* push: branchesToPush
  gitLog,                \* push: the git push commands issued, in order
  kpc,                   \* checkout/next/previous: position inside the command
  kCmd,                  \* checkout/next/previous: the command given
  kIndex,                \* checkout/next/previous: the index asked for
  kBranch,               \* checkout/next/previous: what branchNameAtIndex returned
  trainCfg,              \* create: the train's list in .pr-train.yml
  localBranches,         \* create: the local branches (sg.branchLocal().all)
  fpc,                   \* create: position inside PRTrainClient.create
  mpc,                   \* main: position inside main()
  mOpts,                 \* main: the flags, or the command, of the invocation
  pending,               \* main: operations started whose promise has not settled
  mlog                   \* main: the operations main started after the loop,
                         \*       or the exits of the invocations, in order

rvars == <<head, anc, tip, wtConflict, rebase, rpc, ri, rlog, prevOk, runs>>
cvars == <<sortedTrainBranches, currentBranch, combinedTrainBranch>>
uvars == <<uNav, uBody, uPrev, uCount>>
svars == <<remote, allBranches, syncOpts, prDict, spc, si, calls, sruns>>
kvars == <<kpc, kCmd, kIndex, kBranch>>
fvars == <<trainCfg, localBranches, fpc>>
mvars == <<mpc, mOpts, pending, mlog>>
pvars == <<ppc, pushOpts, requested, branchesToPush, gitLog, kvars, fvars, mvars>>
vars == <<cvars, rvars, failures, uvars, svars, pvars>>

\* ------------------------------------------------------------------ bounds
MaxTrainLen == 3
MaxRuns == 2
MaxFailures == 2
MaxBodyLen == 4
MaxTitleLen == 2
MaxUpserts == 2
MaxSyncRuns == 2
MaxRangeEnd == 1
MaxIndex == 4

\* ------------------------------------------------------------- the train
Undefined == "undefined"
StableBranch == "master"
\* Branch names, in the order the reflow specification lays its train out.
NameOrder == <<"feat-1", "feat-2", "7", "12">>
BranchNames == {NameOrder[k] : k \in DOMAIN NameOrder}

\* The local branches, in the order `git branch` lists them.
LocalBranches == NameOrder \o <<StableBranch>>

Range(s) == {s[k] : k \in DOMAIN s}

Min(a, b) == IF a < b THEN a ELSE b

ReflowTrains == {SubSeq(NameOrder, 1, n) : n \in 1..Min(MaxTrainLen, Len(NameOrder))}

\* The other specifications' variables, at rest.
GitIdle ==
  /\ head = StableBranch
  /\ anc = <<>>
  /\ tip = <<>>
  /\ wtConflict = FALSE
  /\ rebase = FALSE
  /\ rpc = "idle"
  /\ ri = 0
  /\ rlog = <<>>
  /\ prevOk = FALSE
  /\ runs = 0
  /\ failures = 0

GitIdleButFailures ==
  /\ head = StableBranch
  /\ anc = <<>>
  /\ tip = <<>>
  /\ wtConflict = FALSE
  /\ rebase = FALSE
  /\ rpc = "idle"
  /\ ri = 0
  /\ rlog = <<>>
  /\ prevOk = FALSE
  /\ runs = 0

UpsertIdle ==
  /\ uNav = <<>>
  /\ uBody = <<>>
  /\ uPrev = <<>>
  /\ uCount = 0

ConfigIdle ==
  /\ trainCfg = <<>>
  /\ localBranches = {}
  /\ fpc = "idle"

MainIdle ==
  /\ mpc = "idle"
  /\ mOpts = <<>>
  /\ pending = {}
  /\ mlog = <<>>

PushIdle ==
  /\ ConfigIdle
  /\ MainIdle
  /\ ppc = "idle"
  /\ pushOpts = <<>>
  /\ requested = <<>>
  /\ branchesToPush = <<>>
  /\ gitLog = <<>>
  /\ kpc = "idle"
  /\ kCmd = ""
  /\ kIndex = <<>>
  /\ kBranch = ""

SyncIdle ==
  /\ remote = <<>>
  /\ allBranches = <<>>
  /\ syncOpts = <<>>
  /\ prDict = <<>>
  /\ spc = "idle"
  /\ si = 0
  /\ calls = <<>>
  /\ sruns = 0

\* ----------------------------------------------------------- git primitives
\* The repository before the first command: three commits, 0 the root,
\* 1 and 2 its children.
InitialCommits == 0 :> {0} @@ 1 :> {0, 1} @@ 2 :> {0, 2}

\* variant: the two refs in the wrong order
isBranchAncestorSwapped(r1, r2) == tip[r2] \in anc[tip[r1]]

\* git merge-base --is-ancestor r1 r2
isBranchAncestor(r1, r2) == tip[r1] \in anc[tip[r2]]

NextCommit == Cardinality(DOMAIN anc)

\* git merge <from> with <to> checked out, when it succeeds
GitMerge(from, to) ==
  IF tip[from] \in anc[tip[to]] THEN [anc |-> anc, tip |-> tip]
  ELSE IF tip[to] \in anc[tip[from]]
    THEN [anc |-> anc, tip |-> [tip EXCEPT ![to] = tip[from]]]
    ELSE LET m == NextCommit
         IN [anc |-> anc @@ (m :> ({m} \cup anc[tip[to]] \cup anc[tip[from]])),
             tip |-> [tip EXCEPT ![to] = m]]

\* git rebase <from> with <to> checked out, when it succeeds: the commits of
\* <to> that <from> lacks are written again, one after the other, on top of
\* <from>.
GitRebase(from, to) ==
  LET own == anc[tip[to]] \ anc[tip[from]]
      k == Cardinality(own)
      n == NextCommit
  IN IF k = 0 THEN [anc |-> anc, tip |-> [tip EXCEPT ![to] = tip[from]]]
     ELSE [anc |-> anc @@ [c \in n..(n + k - 1) |-> anc[tip[from]] \cup (n..c)],
           tip |-> [tip EXCEPT ![to] = n + k - 1]]

\* variant: the two branches change places
GitCombineBackwards(isRebase, from, to) ==
  IF isRebase THEN GitRebase(to, from) ELSE GitMerge(to, from)

GitCombine(isRebase, from, to) ==
  IF isRebase THEN GitRebase(from, to) ELSE GitMerge(from, to)

\* What one try of "checkout(to); rebase or merge" can end in:
\*   ok         both commands succeeded
\*   conflicts  the merge/rebase failed and the error lists conflicts
\*   stuck      it failed with conflicts left in the tree and no list
\*   error      it failed otherwise (a lock, ...), tree untouched
\*   nocheckout the checkout itself failed
AttemptOutcomes ==
  IF wtConflict THEN {"nocheckout"}
  ELSE {"ok"} \cup (IF failures < MaxFailures
                      THEN {"conflicts", "stuck", "error", "nocheckout"}
                      ELSE {})

HasConflictList(outcome) == outcome = "conflicts"

Event(e, i, res) == [e |-> e, i |-> i, res |-> res]

\* The effect of one try on the repository.
Attempt(outcome, from, to) ==
  /\ head' = IF outcome = "nocheckout" THEN head ELSE to
  /\ wtConflict' = (wtConflict \/ outcome \in {"conflicts", "stuck"})
  /\ failures' = IF outcome = "ok" \/ wtConflict THEN failures ELSE failures + 1
  /\ IF outcome = "ok"
       THEN /\ anc' = GitCombine(rebase, from, to).anc
            /\ tip' = GitCombine(rebase, from, to).tip
       ELSE UNCHANGED <<anc, tip>>

\* -------------------------------------------------------------- reflowTrain
\* variant: the first branch of each pair is the stable branch
B1Stable == StableBranch

B1 == sortedTrainBranches[ri + 1]
\* variant: the second branch of the pair is the first one again
B1Again == sortedTrainBranches[ri + 1]

B2 == sortedTrainBranches[ri + 2]

\* variant: the catch block retries whatever the error
RetryAlways(outcome) == TRUE

\* A catch block retries when the error carries no conflict list.
RetryAfter(outcome) == ~HasConflictList(outcome)

\* variant: the loop's last branch is left checked out
RestoreLastBranch == sortedTrainBranches[Len(sortedTrainBranches)]

\* The branch reflowTrain checks out when the loop is over.
RestoreTarget == currentBranch

\* The loop of the run in the log is over and each combine it invoked took
\* effect.
RunSucceeded ==
  /\ \E k \in DOMAIN rlog : rlog[k].e = "restore"
  /\ \A k \in DOMAIN rlog : rlog[k].e \in {"return", "throw"} => rlog[k].res = "ok"

\* One invocation of the merge or the rebase command: PRTrainClient.create
\* reads the checked-out branch, then reflowTrain(rebase) starts.
ReflowStart ==
  /\ rpc \in {"idle", "done", "aborted"}
  /\ runs < MaxRuns
  /\ \E r \in BOOLEAN : rebase' = r
  /\ currentBranch' = head
  /\ runs' = runs + 1
  /\ ri' = 0
  /\ rpc' = "loop"
  /\ rlog' = <<[e |-> "start", i |-> 0, res |-> head]>>
  /\ prevOk' = RunSucceeded
  /\ UNCHANGED <<sortedTrainBranches, combinedTrainBranch, head, anc, tip,
                 wtConflict, failures>>
  /\ UNCHANGED <<uvars, pvars, svars>>

\* for (i ...) { if (isBranchAncestor(b1, b2)) continue; combineBranches(...) }
ReflowLoop ==
  /\ rpc = "loop"
  /\ IF ri >= Len(sortedTrainBranches) - 1
       THEN /\ rpc' = "restore"
            /\ UNCHANGED <<ri, rlog>>
       ELSE IF isBranchAncestor(B1, B2)
         THEN /\ ri' = ri + 1
              /\ rpc' = "loop"
              /\ rlog' = Append(rlog, Event("ancestor", ri, "yes"))
         ELSE /\ rpc' = "try1"
              /\ rlog' = rlog \o <<Event("ancestor", ri, "no"),
                                   Event("combine", ri,
                                         IF rebase THEN "rebase" ELSE "merge")>>
              /\ UNCHANGED ri
  /\ UNCHANGED <<cvars, head, anc, tip, wtConflict, rebase, runs, failures>>
  /\ UNCHANGED <<prevOk, uvars, pvars, svars>>

\* combineBranches, the try block
CombineTry ==
  /\ rpc = "try1"
  /\ \E outcome \in AttemptOutcomes :
       /\ Attempt(outcome, B1, B2)
       /\ IF outcome = "ok"
            THEN /\ rpc' = "stepWait"
                 /\ rlog' = rlog \o <<Event("attempt", ri, outcome),
                                      Event("return", ri, "ok")>>
            ELSE IF RetryAfter(outcome)
              THEN /\ rpc' = "lockWait"
                   /\ rlog' = Append(rlog, Event("attempt", ri, outcome))
              ELSE /\ rpc' = "stepWait"
                   /\ rlog' = rlog \o <<Event("attempt", ri, outcome),
                                        Event("return", ri, "swallowed")>>
  /\ UNCHANGED <<cvars, rebase, ri, runs>>
  /\ UNCHANGED <<prevOk, uvars, pvars, svars>>

\* combineBranches, the catch block: sleep(MERGE_STEP_DELAY_WAIT_FOR_LOCK)
CombineLockWait ==
  /\ rpc = "lockWait"
  /\ rpc' = "try2"
  /\ rlog' = Append(rlog, Event("sleepLock", ri, ""))
  /\ UNCHANGED <<cvars, head, anc, tip, wtConflict, rebase, ri, runs, failures>>
  /\ UNCHANGED <<prevOk, uvars, pvars, svars>>

\* combineBranches, the catch block: the second checkout and merge/rebase;
\* nothing catches what they throw.
CombineRetry ==
  /\ rpc = "try2"
  /\ \E outcome \in AttemptOutcomes :
       /\ Attempt(outcome, B1, B2)
       /\ IF outcome = "ok"
            THEN /\ rpc' = "stepWait"
                 /\ rlog' = rlog \o <<Event("attempt", ri, outcome),
                                      Event("return", ri, "ok")>>
            ELSE /\ rpc' = "aborted"
                 /\ rlog' = rlog \o <<Event("attempt", ri, outcome),
                                      Event("throw", ri, outcome)>>
  /\ UNCHANGED <<cvars, rebase, ri, runs>>
  /\ UNCHANGED <<prevOk, uvars, pvars, svars>>

\* await sleep(MERGE_STEP_DELAY_MS)
ReflowStepWait ==
  /\ rpc = "stepWait"
  /\ rpc' = "loop"
  /\ ri' = ri + 1
  /\ rlog' = Append(rlog, Event("sleepStep", ri, ""))
  /\ UNCHANGED <<cvars, head, anc, tip, wtConflict, rebase, runs, failures>>
  /\ UNCHANGED <<prevOk, uvars, pvars, svars>>

\* await this.sg.checkout(this.currentBranch)
ReflowRestore ==
  /\ rpc = "restore"
  /\ \E ok \in (IF wtConflict THEN {FALSE}
                ELSE IF failures < MaxFailures THEN BOOLEAN ELSE {TRUE}) :
       /\ head' = IF ok THEN RestoreTarget ELSE head
       /\ rpc' = IF ok THEN "done" ELSE "aborted"
       /\ failures' = IF ok \/ wtConflict THEN failures ELSE failures + 1
       /\ rlog' = Append(rlog, Event("restore", ri, IF ok THEN "ok" ELSE "error"))
  /\ UNCHANGED <<cvars, anc, tip, wtConflict, rebase, ri, runs>>
  /\ UNCHANGED <<prevOk, uvars, pvars, svars>>

ReflowInit ==
  /\ sortedTrainBranches \in ReflowTrains
  /\ head \in Range(sortedTrainBranches)
  /\ currentBranch = head
  /\ combinedTrainBranch = Undefined
  /\ anc = InitialCommits
  /\ tip \in [Range(LocalBranches) -> DOMAIN InitialCommits]
  /\ \A b \in Range(LocalBranches) \ Range(sortedTrainBranches) : tip[b] = 0
  /\ wtConflict = FALSE
  /\ rebase = FALSE
  /\ rpc = "idle"
  /\ ri = 0
  /\ rlog = <<>>
  /\ prevOk = FALSE
  /\ runs = 0
  /\ failures = 0
  /\ UpsertIdle
  /\ SyncIdle
  /\ PushIdle

ReflowNext ==
  \/ ReflowStart
  \/ ReflowLoop
  \/ CombineTry
  \/ CombineLockWait
  \/ CombineRetry
  \/ ReflowStepWait
  \/ ReflowRestore

SpecReflow == ReflowInit /\ [][ReflowNext]_vars

\* ------------------------------------------------------ claims about reflow
IsAttempt(k) == k \in DOMAIN rlog /\ rlog[k].e = "attempt"
Failed(k) == IsAttempt(k) /\ rlog[k].res # "ok"
Combines == {k \in DOMAIN rlog : rlog[k].e = "combine"}
\* The event that opened the run in progress (or the last one).
LastStart == rlog[1]

\* C3: a reflow run that follows a run whose combines all took effect, with
\* no commit in between, invokes combine zero times, for merge and rebase and
\* every initial ancestry of the branches.
C3_SecondRunCombinesNothing ==
  runs >= 2 /\ prevOk => Combines = {}

C3_Witness ==
  /\ runs = 2
  /\ rpc = "done"
  /\ prevOk
  /\ Cardinality(DOMAIN anc) > Cardinality(DOMAIN InitialCommits)
  /\ Cardinality({k \in DOMAIN rlog : rlog[k].e = "ancestor"}) = 2

\* C7: a merge or rebase that fails with a non-empty conflict list makes
\* combine end in a failure thrown to its caller: no retry, no normal return.
C7_ConflictIsThrown ==
  \A k \in DOMAIN rlog :
    IsAttempt(k) /\ rlog[k].res = "conflicts" =>
      k < Len(rlog) /\ rlog[k + 1].e = "throw"

\* C8: after the combine of pair i hit an unresolved conflict, the run makes
\* no ancestor test and no combine for a later pair, and it ends with
\* b_{i+1} checked out.
C8_ConflictAbortsRun ==
  \A k \in DOMAIN rlog :
    IsAttempt(k) /\ rlog[k].res \in {"conflicts", "stuck"} =>
      /\ \A m \in DOMAIN rlog :
           m > k => ~(rlog[m].e \in {"ancestor", "combine"} /\ rlog[m].i > rlog[k].i)
      /\ rpc \in {"done", "aborted"} =>
           head = sortedTrainBranches[rlog[k].i + 2]

\* C9: one call of combine makes at most two tries; the second happens if
\* and only if the first failed without a conflict list, after the delay;
\* a second failure is thrown and nothing of the run follows it.
C9_AtMostOneRetry ==
  \A k \in DOMAIN rlog :
    rlog[k].e = "combine" =>
      /\ k + 1 <= Len(rlog) => IsAttempt(k + 1)
      /\ k + 2 <= Len(rlog) =>
           IF Failed(k + 1) /\ rlog[k + 1].res # "conflicts"
             THEN rlog[k + 2].e = "sleepLock"
             ELSE rlog[k + 2].e = "return"
      /\ k + 3 <= Len(rlog) /\ rlog[k + 2].e = "sleepLock" => IsAttempt(k + 3)
      /\ k + 4 <= Len(rlog) /\ IsAttempt(k + 3) =>
           /\ rlog[k + 4].e = (IF Failed(k + 3) THEN "throw" ELSE "return")
           /\ Failed(k + 3) => Len(rlog) = k + 4
      /\ \A m \in DOMAIN rlog :
           IsAttempt(m) /\ m > k /\ m # k + 1 /\ m # k + 3 =>
             \E c \in DOMAIN rlog : c > k /\ c < m /\ rlog[c].e = "combine"

C9_Witness ==
  \E k \in DOMAIN rlog :
    /\ rlog[k].e = "combine"
    /\ k + 4 <= Len(rlog)
    /\ rlog[k + 1].res = "error"
    /\ rlog[k + 2].e = "sleepLock"
    /\ Failed(k + 3)
    /\ rlog[k + 4].e = "throw"
    /\ rpc = "aborted"

IsTest(ev) == ev.e = "ancestor"
\* The ancestor tests of the run, in the order they were made.
Tests == SelectSeq(rlog, IsTest)

Pair(i) == <<sortedTrainBranches[i + 1], sortedTrainBranches[i + 2]>>

\* C26: the k-th ancestor test of a run is the test of pair k-1, a run
\* whose loop ended has tested the pairs 0..N-2, a combine is invoked for
\* pair i, with the strategy of the run, right after the test of pair i
\* said no and only then, and the test of pair i says yes exactly when b_i
\* is an ancestor of b_{i+1} in the repository as the earlier combines left
\* it.
C26_PairsInOrder ==
  /\ \A k \in DOMAIN Tests : Tests[k].i = k - 1
  /\ Len(Tests) <= Len(sortedTrainBranches) - 1
  /\ (\E k \in DOMAIN rlog : rlog[k].e = "restore") =>
       Len(Tests) = Len(sortedTrainBranches) - 1
  /\ \A k \in DOMAIN rlog :
       /\ rlog[k].e = "combine" =>
            /\ k > 1
            /\ IsTest(rlog[k - 1]) /\ rlog[k - 1].res = "no"
            /\ rlog[k - 1].i = rlog[k].i
            /\ rlog[k].res = (IF rebase THEN "rebase" ELSE "merge")
       /\ IsTest(rlog[k]) /\ rlog[k].res = "no" =>
            k < Len(rlog) /\ rlog[k + 1].e = "combine"
  /\ rlog # <<>> =>
       LET last == rlog[Len(rlog)]
       IN /\ IsTest(last) =>
               /\ last.res = "yes"
               /\ isBranchAncestor(Pair(last.i)[1], Pair(last.i)[2])
          /\ last.e = "combine" =>
               ~isBranchAncestor(Pair(last.i)[1], Pair(last.i)[2])

\* A run over three branches ended: the first pair was combined, and the
\* second pair, tested after that combine, was found in order.
C26_Witness ==
  /\ rpc = "done"
  /\ Len(sortedTrainBranches) = 3
  /\ Len(Tests) = 2
  /\ Tests[1].res = "no"
  /\ Tests[2].res = "yes"

\* C27: when the loop of a reflow run has ended and every combine it
\* invoked returned after a try that succeeded, each branch of the train is
\* an ancestor of the next one, for merge and for rebase, whatever the
\* branches were before.
C27_TrainInOrderAfterRun ==
  RunSucceeded =>
    \A i \in 0..(Len(sortedTrainBranches) - 2) :
      isBranchAncestor(Pair(i)[1], Pair(i)[2])

\* A rebase run over three branches that had to combine both pairs.
C27_Witness ==
  /\ RunSucceeded
  /\ rebase
  /\ Len(sortedTrainBranches) = 3
  /\ Cardinality(Combines) = 2
  /\ Cardinality(DOMAIN anc) > Cardinality(DOMAIN InitialCommits)

\* C28: a step of a reflow run changes the tip of a branch only inside a
\* combine, and then it is the tip of the pair's second branch b_{i+1}, which
\* is neither b_0 nor the stable branch nor outside the train, and the new
\* tip holds the tip of the pair's first branch b_i.
C28_OnlyTargetsChange ==
  [][/\ DOMAIN tip' = DOMAIN tip
     /\ \A b \in DOMAIN tip :
          tip'[b] # tip[b] =>
            /\ rpc \in {"try1", "try2"}
            /\ b = Pair(ri)[2]
            /\ b # sortedTrainBranches[1]
            /\ b # StableBranch
            /\ b \in Range(sortedTrainBranches)
            /\ tip[Pair(ri)[1]] \in anc'[tip'[b]]]_vars

\* A run ended in which the second and the third branch got new tips and
\* the first branch and the stable branch kept theirs.
C28_Witness ==
  /\ rpc = "done"
  /\ Len(sortedTrainBranches) = 3
  /\ tip[sortedTrainBranches[1]] \in DOMAIN InitialCommits \ {0}
  /\ tip[sortedTrainBranches[2]] \notin DOMAIN InitialCommits
  /\ tip[sortedTrainBranches[3]] \notin DOMAIN InitialCommits
  /\ tip[StableBranch] = 0

\* ------------------------------------------------------------------- text
\* Tokens of a PR body or title.
TocOpen == "O"                 \* <pr-train-toc>
TocClose == "C"                \* </pr-train-toc>
Newline == "\n"
Space == " "
TocHeader == "hdr"             \* \n\n#### PR chain:\n
HandRight == "R"               \* the pointing hand before the current entry
HandLeft == "L"                \* the hand and **YOU ARE HERE** after it
CombinedInfo == "K"            \* " **[combined branch]** "

SeqsUpTo(S, n) == UNION {[1..k -> S] : k \in 0..n}

\* String.prototype.trim
RECURSIVE TrimLeft(_)
TrimLeft(s) ==
  IF s # <<>> /\ Head(s) \in {Space, Newline} THEN TrimLeft(Tail(s)) ELSE s

RECURSIVE TrimRight(_)
TrimRight(s) ==
  IF s # <<>> /\ s[Len(s)] \in {Space, Newline}
    THEN TrimRight(SubSeq(s, 1, Len(s) - 1))
    ELSE s

Trim(s) == TrimRight(TrimLeft(s))

Positions(s, tok) == {k \in DOMAIN s : s[k] = tok}
SetMin(S) == CHOOSE x \in S : \A y \in S : x <= y
SetMax(S) == CHOOSE x \in S : \A y \in S : x >= y

\* The replacement text String.prototype.replace builds from a replacement
\* string: $$ is a dollar, $& the match, $` the text before it, $' the text
\* after it; any other dollar stands for itself (the pattern has no groups).
RECURSIVE GetSubstitution(_, _, _, _)
GetSubstitution(replacement, matched, before, after) ==
  IF replacement = <<>> THEN <<>>
  ELSE IF Head(replacement) = "$" /\ Len(replacement) >= 2
            /\ replacement[2] \in {"$", "&", "`", "'"}
    THEN (CASE replacement[2] = "$" -> <<"$">>
            [] replacement[2] = "&" -> matched
            [] replacement[2] = "`" -> before
            [] replacement[2] = "'" -> after)
         \o GetSubstitution(Tail(Tail(replacement)), matched, before, after)
    ELSE <<Head(replacement)>>
         \o GetSubstitution(Tail(replacement), matched, before, after)

\* body.match(/<pr-train-toc>/)
MatchesOpen(body) == Positions(body, TocOpen) # {}

\* variant: the match runs from the first opening marker to the end of the body
ReplaceTocToEnd(body, newNavigation) ==
  LET opens == Positions(body, TocOpen)
      first == SetMin(opens)
      before == SubSeq(body, 1, first - 1)
      matched == SubSeq(body, first, Len(body))
  IN IF opens = {} \/ {k \in Positions(body, TocClose) : k > first} = {} THEN body
     ELSE before \o GetSubstitution(newNavigation, matched, before, <<>>)

\* body.replace(/<pr-train-toc>[^]*<\/pr-train-toc>/, newNavigation): the
\* match runs from the first opening marker to the last closing marker after
\* it; without such a pair the body comes back as it is.
ReplaceToc(body, newNavigation) ==
  LET opens == Positions(body, TocOpen)
      first == SetMin(opens)
      closes == {k \in Positions(body, TocClose) : k > first}
      last == SetMax(closes)
      before == SubSeq(body, 1, first - 1)
      matched == SubSeq(body, first, last)
      after == SubSeq(body, last + 1, Len(body))
  IN IF opens = {} \/ closes = {} THEN body
     ELSE before \o GetSubstitution(newNavigation, matched, before, after) \o after

upsertNavigationInBody(newNavigation, body) ==
  IF body # <<>>
    THEN IF MatchesOpen(body)
           THEN ReplaceToc(body, newNavigation)
           ELSE body \o <<Newline>> \o newNavigation
    ELSE newNavigation

\* ------------------------------------------------------------- navigation
\* Property names that are array indices, with their value: Object.keys
\* lists those first, in ascending numeric order, then the other names in
\* the order they were added.
IntegerKeys == "7" :> 7 @@ "12" :> 12

RECURSIVE SortKeys(_)
SortKeys(S) ==
  IF S = {} THEN <<>>
  ELSE LET least == CHOOSE b \in S : \A c \in S : IntegerKeys[b] <= IntegerKeys[c]
       IN <<least>> \o SortKeys(S \ {least})

IsNotIntegerKey(b) == b \notin DOMAIN IntegerKeys

\* A dictionary is [keys: the names in the order added, val: name -> value].
EmptyDict == [keys |-> <<>>, val |-> <<>>]

\* variant: each callback starts from an empty object
DictFresh(d, k, v) == [keys |-> <<k>>, val |-> (k :> v)]

\* memo[branch] = {...}; return memo;
DictPut(d, k, v) ==
  [keys |-> IF k \in Range(d.keys) THEN d.keys ELSE Append(d.keys, k),
   val |-> (k :> v) @@ d.val]

ObjectKeys(d) ==
  SortKeys(Range(d.keys) \cap DOMAIN IntegerKeys) \o SelectSeq(d.keys, IsNotIntegerKey)

NavEntry(info, isCurrent, isCombined) ==
  (IF isCurrent THEN <<HandRight>> ELSE <<>>)
  \o <<"#", ToString(info.pr)>>
  \o <<IF isCombined THEN CombinedInfo ELSE Space>>
  \o <<"(">> \o Trim(info.title) \o <<")">>
  \o (IF isCurrent THEN <<HandLeft>> ELSE <<>>)
  \o <<Newline>>

RECURSIVE NavEntries(_, _, _, _)
NavEntries(keys, branchToPrDict, current, combinedBranch) ==
  IF keys = <<>> THEN <<>>
  ELSE NavEntry(branchToPrDict.val[Head(keys)], Head(keys) = current,
                Head(keys) = combinedBranch)
       \o NavEntries(Tail(keys), branchToPrDict, current, combinedBranch)

constructTrainNavigation(branchToPrDict, current, combinedBranch) ==
  <<TocOpen, TocHeader>>
  \o NavEntries(ObjectKeys(branchToPrDict), branchToPrDict, current, combinedBranch)
  \o <<Newline, TocClose>>

\* ------------------------------------------------- upsert, on its own
BodyTokens == {TocOpen, TocClose, "x"}
TitleTokens == {"x", "$", "&"}

UpsertDict(title) ==
  DictPut(EmptyDict, "feat-1", [title |-> title, pr |-> 1, body |-> <<>>,
                                updating |-> TRUE])

UpsertInit ==
  /\ uBody \in SeqsUpTo(BodyTokens, MaxBodyLen)
  /\ \E title \in SeqsUpTo(TitleTokens, MaxTitleLen) :
       \E current \in {"feat-1", "feat-2"} :
         \E combinedBranch \in {"feat-1", Undefined} :
           uNav = constructTrainNavigation(UpsertDict(title), current, combinedBranch)
  /\ uPrev = uBody
  /\ uCount = 0
  /\ sortedTrainBranches = <<"feat-1">>
  /\ currentBranch = "feat-1"
  /\ combinedTrainBranch = Undefined
  /\ GitIdle
  /\ SyncIdle
  /\ PushIdle

\* newBody = upsertNavigationInBody(navigation, body)
Upsert ==
  /\ uCount < MaxUpserts
  /\ uPrev' = uBody
  /\ uBody' = upsertNavigationInBody(uNav, uBody)
  /\ uCount' = uCount + 1
  /\ UNCHANGED <<uNav, cvars, rvars, failures, svars, pvars>>

UpsertNext == Upsert

SpecUpsert == UpsertInit /\ [][UpsertNext]_vars

\* C4: for every navigation block and every body, a second upsert of the
\* same block leaves the body as the first upsert made it.
C4_UpsertIdempotent ==
  uCount >= 2 => uBody = uPrev

Holds(text, part) ==
  \E k \in 1..(Len(text) - Len(part) + 1) : SubSeq(text, k, k + Len(part) - 1) = part

\* The body holds an opening marker with a closing marker after it.
HasRegion(body) ==
  \E i, j \in DOMAIN body : i < j /\ body[i] = TocOpen /\ body[j] = TocClose

\* C15: for every body and every rendered block, the upsert's result holds
\* exactly one delimited region, which is the block verbatim; a body without
\* a delimited region comes back as body, one newline, block.
C15_UpsertOneRegion ==
  uCount = 1 =>
    /\ Positions(uBody, TocOpen) # {} /\ Positions(uBody, TocClose) # {}
    /\ Cardinality(Positions(uBody, TocOpen)) = 1
    /\ Cardinality(Positions(uBody, TocClose)) = 1
    /\ Holds(uBody, uNav)
    /\ ~HasRegion(uPrev) => uBody = uPrev \o <<Newline>> \o uNav

IsPrefix(part, text) ==
  Len(part) <= Len(text) /\ SubSeq(text, 1, Len(part)) = part

IsSuffix(part, text) ==
  Len(part) <= Len(text) /\ SubSeq(text, Len(text) - Len(part) + 1, Len(text)) = part

\* The region an upsert replaces: from the first opening marker to the last
\* closing marker after it.
RegionFirst(body) == SetMin(Positions(body, TocOpen))
RegionLast(body) == SetMax({k \in Positions(body, TocClose) : k > RegionFirst(body)})

\* C30: an upsert leaves the text before the opening marker and the text
\* after the closing marker of the region it replaces unchanged and in place,
\* at the start and at the end of the result; a body without markers, and
\* one in which nothing is replaced, is a prefix of the result.
C30_UpsertFrame ==
  uCount >= 1 =>
    IF HasRegion(uPrev)
      THEN LET before == SubSeq(uPrev, 1, RegionFirst(uPrev) - 1)
               after == SubSeq(uPrev, RegionLast(uPrev) + 1, Len(uPrev))
           IN /\ IsPrefix(before, uBody)
              /\ IsSuffix(after, uBody)
              /\ Len(before) + Len(after) <= Len(uBody)
      ELSE IsPrefix(uPrev, uBody)

C30_Witness ==
  /\ uCount = 1
  /\ HasRegion(uPrev)
  /\ RegionFirst(uPrev) > 1
  /\ RegionLast(uPrev) < Len(uPrev)
  /\ uBody # uPrev


\* ------------------------------------------------ PR synchronisation (sync)
\* The trains of the sync specification: the leading branches of these.
SyncOrders == {<<"feat-1", "feat-2", "7">>, <<"12", "7">>}

SyncTrains ==
  UNION {{SubSeq(o, 1, n) : n \in 1..Min(MaxTrainLen, Len(o))} : o \in SyncOrders}

\* constructPrMsg: title and body of the branch's tip commit, trimmed.
CommitBodies == "feat-1" :> <<>> @@ "feat-2" :> <<"x">> @@ "7" :> <<"x">>
                @@ "12" :> <<"x", Newline, "y", Newline>>

constructPrMsg(branch) ==
  [title |-> Trim(<<"commit of", branch, Newline>>),
   body |-> Trim(CommitBodies[branch])]

getCombinedBranchPrMsg(combinedBranchTitle) ==
  [title |-> combinedBranchTitle, body |-> <<>>]

\* What a pull request that exists before the first run can hold.
ExistingContents ==
  {[title |-> <<"r", Space>>, body |-> <<"x">>],
   [title |-> <<"$", "&">>, body |-> <<"x", TocOpen, "y", TocClose, "z">>],
   [title |-> <<"r">>, body |-> <<TocOpen, "x">>]}

\* A --range option is a string, here the sequence of its characters: none
\* (the option is absent), <start>..<end>, or text of another form.
NoRange == <<>>
BadRange == <<"x">>
RangeStrings ==
  {NoRange, BadRange}
  \cup {<<ToString(a), ".", ".", ToString(b)>> :
          a \in 0..MaxRangeEnd, b \in 0..MaxRangeEnd}

\* \d matches one of the characters 0 to 9
Digits == {ToString(n) : n \in 0..9}
IsDigit(c) == c \in Digits
DigitValue(c) == CHOOSE n \in 0..9 : ToString(n) = c

\* parseInt of a run of digits
RECURSIVE ParseInt(_)
ParseInt(digits) ==
  IF digits = <<>> THEN 0
  ELSE 10 * ParseInt(SubSeq(digits, 1, Len(digits) - 1))
       + DigitValue(digits[Len(digits)])

\* The last place of the run of digits that starts at place i.
RECURSIVE DigitsEnd(_, _)
DigitsEnd(str, i) ==
  IF i + 1 <= Len(str) /\ IsDigit(str[i + 1]) THEN DigitsEnd(str, i + 1) ELSE i

\* rangeString.match(/(?<start>\d+)\.\.(?<end>\d+)/): the places where a
\* run of digits, two dots and a digit follow one another; the pattern is
\* searched for anywhere in the string.
RangeMatches(str) ==
  {i \in DOMAIN str :
     /\ IsDigit(str[i])
     /\ LET j == DigitsEnd(str, i)
        IN j + 3 <= Len(str) /\ str[j + 1] = "." /\ str[j + 2] = "."
           /\ IsDigit(str[j + 3])}

\* if (matches === null || matches === undefined) throw new Error(...)
RangeThrows(rangeString) == RangeMatches(rangeString) = {}

\* return [parseInt(start), parseInt(end) + 1], from the leftmost match
rangeStringToRange(rangeString) ==
  LET i == CHOOSE m \in RangeMatches(rangeString) :
             \A o \in RangeMatches(rangeString) : m <= o
      j == DigitsEnd(rangeString, i)
      k == DigitsEnd(rangeString, j + 3)
  IN <<ParseInt(SubSeq(rangeString, i, j)), ParseInt(SubSeq(rangeString, j + 3, k)) + 1>>

\* rangeString ? rangeStringToRange(rangeString) : [...] throws
RangeFails(rangeString) == rangeString # NoRange /\ RangeThrows(rangeString)

\* Array.prototype.slice(from, to), indices counted from 0
Slice(s, from, to) ==
  LET hi == Min(to, Len(s))
  IN IF from >= hi THEN <<>> ELSE SubSeq(s, from + 1, hi)

\* const range = rangeString ? rangeStringToRange(rangeString) : [0, length];
\* requestedBranches = this.sortedTrainBranches.slice(...range)
requestedBranches(rangeString) ==
  LET range == IF rangeString = NoRange
                 THEN <<0, Len(sortedTrainBranches)>>
                 ELSE rangeStringToRange(rangeString)
  IN Slice(sortedTrainBranches, range[1], range[2])

\* variant: the combined branch is based on its predecessor like any other
Pass1BaseChained(index, branch, combinedBranch) ==
  IF index = 0 THEN StableBranch ELSE allBranches[index]

\* pass 1: index === 0 || branch === combinedBranch ? stableBranch
\*                                                  : allBranches[index - 1]
Pass1Base(index, branch, combinedBranch) ==
  IF index = 0 \/ branch = combinedBranch THEN StableBranch ELSE allBranches[index]

\* pass 2: the same expression, written again
Pass2Base(index, branch, combinedBranch) ==
  IF index = 0 \/ branch = combinedBranch THEN StableBranch ELSE allBranches[index]

\* ghRepo.prsAsync({head}): the number of the first pull request listed for
\* the head branch, 0 when there is none.
FindPr(branch) ==
  LET found == {n \in DOMAIN remote : remote[n].head = branch}
  IN IF found = {} THEN 0 ELSE SetMax(found)

Call(op, branch, pr, base, title, body, res) ==
  [op |-> op, branch |-> branch, pr |-> pr, base |-> base, title |-> title,
   body |-> body, draft |-> op = "create" /\ syncOpts.draft, res |-> res]

\* variant: title and body are always computed locally
Pass2MsgLocal(prInfo, branch) ==
  IF branch = combinedTrainBranch
    THEN getCombinedBranchPrMsg(syncOpts.combinedBranchTitle)
    ELSE constructPrMsg(branch)

\* pass 2: prInfo.updating ? prInfo : branch === combinedBranch
\*           ? getCombinedBranchPrMsg() : await this.constructPrMsg(branch)
Pass2Msg(prInfo, branch) ==
  IF prInfo.updating THEN [title |-> prInfo.title, body |-> prInfo.body]
  ELSE IF branch = combinedTrainBranch
    THEN getCombinedBranchPrMsg(syncOpts.combinedBranchTitle)
    ELSE constructPrMsg(branch)

\* variant: the catch block logs the error and the reduce goes on
OnCreateErrorGoOn == "pass1"

\* catch (e) { console.error(...); throw e; }: the promise of the reduce is
\* rejected, every later callback rejects at "await _memo", pass 2 never starts.
OnCreateError == "failed"

RemoteOutcomes(steps) ==
  {"ok"} \cup (IF failures < MaxFailures THEN steps ELSE {})

\* reviewers: string[], draft: boolean, as the signature of
\* GitHubClient.ensurePrsExist declares them
TypedRests ==
  {[reviewers |-> <<>>, draft |-> FALSE],
   [reviewers |-> <<"alice">>, draft |-> TRUE]}

\* gitHubClient.ensurePrsExist(requestedBranches, this.combinedTrainBranch,
\* remote, stableBranch): the command passes four arguments. reviewers is
\* undefined, here a record without that field; draft is undefined, which
\* is falsy where it is read.
CliRest == [draft |-> FALSE]

\* variant: the command goes on without the key file
KeyUnchecked(keyExists) == FALSE

\* checkGHKeyExists: readGHKey() throws when $HOME/.pr-train cannot be read
KeyMissing(keyExists) == ~keyExists

\* variant: the answer to the confirmation prompt is not looked at
DeclinedIgnored(confirm) == FALSE

\* if (!(await promptly.confirm(...))) process.exit(0)
Declined(confirm) == ~confirm

\* The create-prs command up to the first remote call: the key file, the
\* range, the remote URL, the two prompts.
SyncBegin(rests) ==
  /\ spc \in {"idle", "done"}
  /\ sruns < MaxSyncRuns
  /\ sruns' = sruns + 1
  /\ \E rangeString \in RangeStrings :
     LET rangeFails == RangeFails(rangeString) IN
     \E keyExists \in BOOLEAN,
        remoteUrl \in {"", "unparseable", "github"},
        combinedBranchTitle \in {<<>>, <<"all of it">>},
        confirm \in BOOLEAN,
        rest \in rests :
       \* each input is drawn only where the code reads it
       /\ ~keyExists =>
            rangeString = NoRange /\ remoteUrl = "github" /\ confirm
       /\ rangeFails =>
            remoteUrl = "github" /\ confirm
       /\ remoteUrl = "" => confirm
       /\ (combinedTrainBranch = Undefined \/ ~keyExists \/ rangeFails
           \/ remoteUrl = "") => combinedBranchTitle = <<"all of it">>
       /\ combinedBranchTitle = <<>> => confirm /\ remoteUrl = "github"
       /\ (~keyExists \/ rangeFails \/ remoteUrl # "github"
           \/ combinedBranchTitle = <<>> \/ ~confirm) => ~rest.draft
       /\ spc' = IF KeyMissing(keyExists) THEN "exit4: key"
                 ELSE IF rangeFails THEN "threw"
                 ELSE IF remoteUrl = "" THEN "exit4: url"
                 ELSE IF combinedTrainBranch # Undefined /\ combinedBranchTitle = <<>>
                   THEN "exit5"
                 ELSE IF Declined(confirm) THEN "exit0"
                 ELSE IF remoteUrl = "unparseable" THEN "exit4: parse"
                 ELSE IF requestedBranches(rangeString) = <<>> THEN "done"
                 ELSE "pass1"
       /\ IF ~KeyMissing(keyExists) /\ ~rangeFails /\ remoteUrl = "github"
             /\ ~Declined(confirm)
             /\ ~(combinedTrainBranch # Undefined /\ combinedBranchTitle = <<>>)
            THEN /\ allBranches' = requestedBranches(rangeString)
                 /\ syncOpts' = [combinedBranchTitle |-> combinedBranchTitle,
                                 key |-> keyExists, confirm |-> confirm]
                                @@ rest
            ELSE UNCHANGED <<allBranches, syncOpts>>
  /\ prDict' = EmptyDict
  /\ si' = 0
  /\ calls' = <<>>
  /\ UNCHANGED <<cvars, rvars, failures, uvars, pvars, remote>>

\* GitHubClient.ensurePrsExist called with all six arguments
SyncStart == SyncBegin(TypedRests)

\* The create-prs command: PRTrainClient.ensurePrsExist makes the call
SyncStartCli == SyncBegin({CliRest})

\* GitHubClient.ensurePrsExist, pass 1, one branch: look the PR up, create
\* it when there is none, record it in prDict.
SyncPass1 ==
  /\ spc = "pass1"
  /\ LET index == si
         branch == allBranches[si + 1]
         msg == IF branch = combinedTrainBranch
                  THEN getCombinedBranchPrMsg(syncOpts.combinedBranchTitle)
                  ELSE constructPrMsg(branch)
         base == Pass1Base(index, branch, combinedTrainBranch)
         found == FindPr(branch)
         number == Len(remote) + 1
         lookup(res) == Call("lookup", branch, found, "", <<>>, <<>>, res)
         create(res) == Call("create", branch, IF res = "ok" THEN number ELSE 0,
                             base, msg.title, msg.body, res)
     IN \E outcome \in RemoteOutcomes({"lookup fails"}
                         \cup IF found = 0 THEN {"create fails"} ELSE {}) :
          /\ failures' = IF outcome = "ok" THEN failures ELSE failures + 1
          /\ IF outcome = "lookup fails"
               THEN /\ calls' = Append(calls, lookup("error"))
                    /\ spc' = "failed"
                    /\ UNCHANGED <<remote, prDict, si>>
               ELSE IF found # 0
                 THEN /\ calls' = Append(calls, lookup("ok"))
                      /\ prDict' = DictPut(prDict, branch,
                                     [body |-> remote[found].body,
                                      title |-> remote[found].title,
                                      pr |-> found, updating |-> TRUE])
                      /\ si' = si + 1
                      /\ spc' = IF si + 1 = Len(allBranches) THEN "pass2" ELSE "pass1"
                      /\ UNCHANGED remote
                 ELSE IF outcome = "create fails"
                   THEN /\ calls' = calls \o <<lookup("ok"), create("error")>>
                        /\ spc' = OnCreateError
                        /\ UNCHANGED <<remote, prDict, si>>
                   ELSE /\ calls' = calls \o <<lookup("ok"), create("ok")>>
                        /\ remote' = Append(remote,
                                       [head |-> branch, base |-> base,
                                        title |-> msg.title, body |-> msg.body])
                        /\ prDict' = DictPut(prDict, branch,
                                       [body |-> msg.body, title |-> msg.title,
                                        pr |-> number, updating |-> FALSE])
                        /\ si' = si + 1
                        /\ spc' = IF si + 1 = Len(allBranches) THEN "pass2" ELSE "pass1"
  /\ UNCHANGED <<cvars, rvars, uvars, pvars, allBranches, syncOpts, sruns>>

\* The reduce of pass 1 is over: pass 2 starts at the first branch.
SyncTurn ==
  /\ spc = "pass2"
  /\ si = Len(allBranches)
  /\ si' = 0
  /\ UNCHANGED <<cvars, rvars, failures, uvars, pvars, remote, allBranches, syncOpts,
                 prDict, spc, calls, sruns>>

\* GitHubClient.ensurePrsExist, pass 2, one branch: title, base and the body
\* with the navigation upserted are sent; reviewers are requested.
SyncPass2 ==
  /\ spc = "pass2"
  /\ si < Len(allBranches)
  /\ LET index == si
         branch == allBranches[si + 1]
         prInfo == prDict.val[branch]
         msg == Pass2Msg(prInfo, branch)
         base == Pass2Base(index, branch, combinedTrainBranch)
         navigation == constructTrainNavigation(prDict, branch, combinedTrainBranch)
         newBody == upsertNavigationInBody(navigation, msg.body)
         update(res) == Call("update", branch, prInfo.pr, base, msg.title, newBody, res)
         review(res) == Call("review", branch, prInfo.pr, "", <<>>, <<>>, res)
         \* reviewers.length of an undefined reviewers throws a TypeError
         given == "reviewers" \in DOMAIN syncOpts
         asked == given /\ Len(syncOpts.reviewers) > 0
     IN \E outcome \in RemoteOutcomes({"update fails"}
                         \cup IF asked THEN {"review fails"} ELSE {}) :
          /\ failures' = IF outcome = "ok" THEN failures ELSE failures + 1
          /\ IF outcome = "update fails"
               THEN /\ calls' = Append(calls, update("error"))
                    /\ spc' = "failed"
                    /\ UNCHANGED <<remote, si>>
               ELSE /\ remote' = [remote EXCEPT ![prInfo.pr] =
                                    [@ EXCEPT !.title = msg.title, !.base = base,
                                              !.body = newBody]]
                    /\ calls' = calls \o <<update("ok")>>
                                \o (IF asked
                                      THEN <<review(IF outcome = "ok" THEN "ok"
                                                    ELSE "error")>>
                                      ELSE <<>>)
                    /\ IF ~given
                         THEN spc' = "threw" /\ UNCHANGED si
                         ELSE IF outcome = "review fails"
                         THEN spc' = "failed" /\ UNCHANGED si
                         ELSE /\ si' = si + 1
                              /\ spc' = IF si + 1 = Len(allBranches)
                                          THEN "done" ELSE "pass2"
  /\ UNCHANGED <<cvars, rvars, uvars, pvars, allBranches, syncOpts, prDict, sruns>>

\* The pull requests that exist before the first run: one for each branch
\* of `heads`, holding `content`.
RECURSIVE ExistingPrs(_, _, _)
ExistingPrs(train, heads, content) ==
  IF train = <<>> THEN <<>>
  ELSE (IF Head(train) \in heads
          THEN <<[head |-> Head(train), base |-> "develop",
                  title |-> content.title, body |-> content.body]>>
          ELSE <<>>)
       \o ExistingPrs(Tail(train), heads, content)

SyncInit ==
  /\ sortedTrainBranches \in SyncTrains
  /\ currentBranch = sortedTrainBranches[1]
  /\ combinedTrainBranch \in {Undefined} \cup Range(sortedTrainBranches)
  /\ \E heads \in SUBSET Range(sortedTrainBranches), content \in ExistingContents :
       /\ heads = {} => content = [title |-> <<"r", Space>>, body |-> <<"x">>]
       /\ remote = ExistingPrs(sortedTrainBranches, heads, content)
  /\ allBranches = <<>>
  /\ syncOpts = <<>>
  /\ prDict = EmptyDict
  /\ spc = "idle"
  /\ si = 0
  /\ calls = <<>>
  /\ sruns = 0
  /\ failures = 0
  /\ GitIdleButFailures
  /\ UpsertIdle
  /\ PushIdle

SyncNext ==
  \/ SyncStart
  \/ SyncPass1
  \/ SyncTurn
  \/ SyncPass2

SpecSync == SyncInit /\ [][SyncNext]_vars

\* The sync as the create-prs command runs it.
SyncCliNext ==
  \/ SyncStartCli
  \/ SyncPass1
  \/ SyncTurn
  \/ SyncPass2

SpecSyncCli == SyncInit /\ [][SyncCliNext]_vars

\* -------------------------------------------------------- claims about sync
\* Place of a branch in the train, counted from 1 (0: not in the train).
TrainIndex(branch) ==
  IF branch \in Range(sortedTrainBranches)
    THEN CHOOSE k \in DOMAIN sortedTrainBranches : sortedTrainBranches[k] = branch
    ELSE 0

\* The base the data model gives a branch of the train.
TrainBase(branch) ==
  IF TrainIndex(branch) = 1 \/ branch = combinedTrainBranch
    THEN StableBranch
    ELSE sortedTrainBranches[TrainIndex(branch) - 1]

SendsBase(k) == k \in DOMAIN calls /\ calls[k].op \in {"create", "update"}

\* The run syncs the train from its first branch on.
FromFirstBranch ==
  spc # "idle" /\ allBranches # <<>> /\ allBranches[1] = sortedTrainBranches[1]

C11_CreateFailureAborts ==
  \A k \in DOMAIN calls :
    calls[k].op = "create" /\ calls[k].res = "error" =>
      /\ k = Len(calls)
      /\ spc = "failed"
      /\ \A m \in DOMAIN calls : calls[m].op \in {"lookup", "create"}

C11_Witness ==
  /\ spc = "failed"
  /\ Len(allBranches) = 3
  /\ si = 1
  /\ Len(calls) = 4
  /\ calls[2].op = "create" /\ calls[2].res = "ok"
  /\ calls[4].op = "create" /\ calls[4].res = "error"

IsPass1Call(k) == k \in DOMAIN calls /\ calls[k].op \in {"lookup", "create"}
IsPass2Call(k) == k \in DOMAIN calls /\ calls[k].op \in {"update", "review"}

\* The directory holds one entry for each of the first n synced branches.
DirectoryCovers(n) ==
  /\ Len(prDict.keys) = n
  /\ Range(prDict.keys) = {allBranches[j] : j \in 1..n}
  /\ DOMAIN prDict.val = Range(prDict.keys)

\* C12: every lookup and create of a sync run comes before its first update;
\* pass 1 adds one directory entry per branch, an update is sent only when
\* the directory holds every synced branch, and no step of pass 2 changes
\* the directory.
C12_DirectoryBeforeUpdates ==
  /\ [](/\ \A k, m \in DOMAIN calls : IsPass1Call(m) /\ IsPass2Call(k) => m < k
        /\ spc = "pass1" => DirectoryCovers(si)
        /\ (spc = "pass2" \/ \E k \in DOMAIN calls : IsPass2Call(k)) =>
             DirectoryCovers(Len(allBranches)))
  /\ [][spc = "pass2" => prDict' = prDict]_vars

C12_Witness ==
  /\ spc = "pass2"
  /\ Len(allBranches) = 3
  /\ si = 2
  /\ DirectoryCovers(3)
  /\ Cardinality({k \in DOMAIN calls : calls[k].op = "create"}) = 2
  /\ Cardinality({k \in DOMAIN calls : calls[k].op = "update"}) = 2

\* The run in progress found the branch's PR on the remote: it did not create it.
FoundOnRemote(branch) ==
  /\ FindPr(branch) # 0
  /\ \A k \in DOMAIN calls : ~(calls[k].op = "create" /\ calls[k].branch = branch)

\* C13: the update sent for a branch whose PR the run found on the remote
\* carries that PR's title as the remote holds it and, as body, the upsert of
\* the branch's navigation into the body the remote holds.
C13_ExistingPrKeepsContent ==
  [][\A j \in (Len(calls) + 1)..Len(calls') :
       calls'[j].op = "update" /\ FoundOnRemote(calls'[j].branch) =>
         LET b == calls'[j].branch
             n == FindPr(b)
         IN /\ calls'[j].pr = n
            /\ calls'[j].title = remote[n].title
            /\ calls'[j].body =
                 upsertNavigationInBody(
                   constructTrainNavigation(prDict, b, combinedTrainBranch),
                   remote[n].body)]_vars

\* An update of the combined branch's existing PR went out with the title
\* the remote held, which is neither the prompted nor the commit's title.
C13_Witness ==
  /\ spc = "done"
  /\ combinedTrainBranch # Undefined
  /\ \E k \in DOMAIN calls :
       /\ calls[k].op = "update" /\ calls[k].res = "ok"
       /\ calls[k].branch = combinedTrainBranch
       /\ FoundOnRemote(calls[k].branch)
       /\ calls[k].title = <<"r", Space>>
       /\ calls[k].title # syncOpts.combinedBranchTitle
       /\ calls[k].title # constructPrMsg(calls[k].branch).title
  /\ \E k \in DOMAIN calls :
       /\ calls[k].op = "update" /\ calls[k].res = "ok"
       /\ calls[k].branch # combinedTrainBranch
       /\ FoundOnRemote(calls[k].branch)
       /\ calls[k].title # constructPrMsg(calls[k].branch).title

\* The run in progress was asked to request reviewers.
ReviewersRequested ==
  "reviewers" \in DOMAIN syncOpts /\ Len(syncOpts.reviewers) > 0

\* C21: a review request is issued right after the update of a branch, for
\* the same pull request, exactly when reviewers were requested; a run without
\* reviewers issues no review request, and unless a remote call failed it
\* ends with an update sent for every synced branch.
C21_ReviewIffRequested ==
  calls # <<>> =>
    /\ \A k \in DOMAIN calls :
         calls[k].op = "review" =>
           /\ ReviewersRequested
           /\ k > 1
           /\ calls[k - 1].op = "update" /\ calls[k - 1].res = "ok"
           /\ calls[k - 1].branch = calls[k].branch
           /\ calls[k - 1].pr = calls[k].pr
    /\ ReviewersRequested =>
         \A k \in DOMAIN calls :
           calls[k].op = "update" /\ calls[k].res = "ok" =>
             k + 1 \in DOMAIN calls /\ calls[k + 1].op = "review"
    /\ ~ReviewersRequested /\ spc \notin {"pass1", "pass2"}
       /\ (\A k \in DOMAIN calls : calls[k].res = "ok") =>
         \A b \in Range(allBranches) :
           \E k \in DOMAIN calls : calls[k].op = "update" /\ calls[k].branch = b

\* The run in progress stopped before its first remote call.
NothingSent ==
  /\ calls = <<>>
  /\ prDict = EmptyDict
  /\ si = 0

\* C25: a create-prs run that finds no credential file ends with exit code 4
\* and no remote call; a run that made a remote call had the file.
C25_NoKeyNoCalls ==
  /\ spc = "exit4: key" => NothingSent
  /\ calls # <<>> => syncOpts.key

\* The key file is gone for a second run, over pull requests that exist.
C25_Witness ==
  /\ spc = "exit4: key"
  /\ sruns = 2
  /\ remote # <<>>
  /\ calls = <<>>

\* C29: a sync run whose confirmation is answered with no (exit code 0), or
\* whose combined branch gets an empty PR title (exit code 5), ends with no
\* remote call; a run that made a remote call was confirmed and, with a
\* combined branch, was given a title.
C29_DeclinedNoCalls ==
  /\ spc \in {"exit0", "exit5"} => NothingSent
  /\ calls # <<>> =>
       /\ syncOpts.confirm
       /\ combinedTrainBranch # Undefined => syncOpts.combinedBranchTitle # <<>>

C29_Witness ==
  /\ spc = "exit0"
  /\ sruns = 2
  /\ combinedTrainBranch # Undefined
  /\ Len(remote) = Len(sortedTrainBranches)
  /\ calls = <<>>

\* The block the rendering rule asks for: one entry for each synced branch,
\* in the order of the list.
ListOrderNavigation(owner) ==
  <<TocOpen, TocHeader>>
  \o NavEntries(allBranches, prDict, owner, combinedTrainBranch)
  \o <<Newline, TocClose>>

\* C14: the block rendered for an owning branch has one entry for each synced
\* branch in the order of the train, whatever the branch names; the entry
\* shows number and title, the combined annotation on the combined branch
\* only, the YOU ARE HERE marker on the owning branch only.
C14_NavigationInTrainOrder ==
  spc = "pass2" =>
    \A owner \in Range(allBranches) :
      constructTrainNavigation(prDict, owner, combinedTrainBranch)
        = ListOrderNavigation(owner)

\* C2: also in a sync restricted to a range s..e with s > 0, a branch that
\* is not the combined one gets its train predecessor as base.
C2_BaseFollowsTrainInRange ==
  \A k \in DOMAIN calls :
    SendsBase(k) => calls[k].base = TrainBase(calls[k].branch)

Count(s, tok) == Cardinality(Positions(s, tok))

PrsOf(branch) == {n \in DOMAIN remote : remote[n].head = branch}

RECURSIVE TrainOrderEntries(_, _)
TrainOrderEntries(branches, owner) ==
  IF branches = <<>> THEN <<>>
  ELSE LET b == Head(branches)
           n == CHOOSE x \in PrsOf(b) : TRUE
       IN NavEntry([pr |-> n, title |-> remote[n].title], b = owner,
                   b = combinedTrainBranch)
          \o TrainOrderEntries(Tail(branches), owner)

\* The block the data model asks for: one entry for each branch, in train order.
TrainOrderNavigation(owner) ==
  <<TocOpen, TocHeader>> \o TrainOrderEntries(sortedTrainBranches, owner)
  \o <<Newline, TocClose>>

\* The body holds one delimited block, and it is `nav`.
HoldsOneBlock(body, nav) ==
  /\ Count(body, TocOpen) = 1
  /\ Count(body, TocClose) = 1
  /\ \E k \in 1..(Len(body) - Len(nav) + 1) : SubSeq(body, k, k + Len(nav) - 1) = nav

OkCreates == {k \in DOMAIN calls : calls[k].op = "create" /\ calls[k].res = "ok"}

\* Every pull request there is was created by the run in progress.
StartedWithNoPr == sruns = 1 /\ Cardinality(OkCreates) = Len(remote)

\* C5: starting with no PR, a sync of the train that finishes leaves one PR
\* for each branch, and each body holds one navigation block listing every
\* branch in train order with its PR number.
C5_FreshSyncRoundTrip ==
  spc = "done" /\ StartedWithNoPr /\ allBranches = sortedTrainBranches =>
    \A b \in Range(sortedTrainBranches) :
      /\ Cardinality(PrsOf(b)) = 1
      /\ \A n \in PrsOf(b) : HoldsOneBlock(remote[n].body, TrainOrderNavigation(b))

\* The pull requests that were there when the run in progress began.
ExistedAtStart(branch) ==
  \E n \in PrsOf(branch) : n <= Len(remote) - Cardinality(OkCreates)

\* C6: when every branch has a PR already, a sync run creates none, records
\* for each branch the number the lookup found and leaves one navigation
\* block in every body; no branch ever has two PRs.
C6_RerunStable ==
  /\ (spc # "idle" /\ \A b \in Range(allBranches) : ExistedAtStart(b)) =>
       /\ \A k \in DOMAIN calls : calls[k].op # "create"
       /\ \A b \in Range(prDict.keys) : prDict.val[b].pr = FindPr(b)
       /\ spc = "done" =>
            \A b \in Range(allBranches) :
              /\ Count(remote[FindPr(b)].body, TocOpen) = 1
              /\ Count(remote[FindPr(b)].body, TocClose) = 1
  /\ \A b \in BranchNames : Cardinality(PrsOf(b)) <= 1

\* ------------------------------------------------------------------- push
DefaultRemote == "origin"

\* One line of `git branch --merged <stableBranch>`: two characters, of which
\* the first is an asterisk on the checked-out branch, then the name.
BranchLine(b) == IF b = head THEN <<"*", Space, b>> ELSE <<Space, Space, b>>

\* The output of sg.raw(['branch', '--merged', stableBranch]), split('\n'):
\* a line for each local branch whose tip the stable branch reaches, and
\* the empty string after the last newline.
RECURSIVE MergedLines(_, _)
MergedLines(branches, stableBranch) ==
  IF branches = <<>> THEN << <<>> >>
  ELSE (IF isBranchAncestor(Head(branches), stableBranch)
          THEN <<BranchLine(Head(branches))>> ELSE <<>>)
       \o MergedLines(Tail(branches), stableBranch)

\* variant: the two-character prefix is cut off each line
MergedNamesCut(stableBranch) ==
  {<<b>> : b \in {c \in Range(LocalBranches) : isBranchAncestor(c, stableBranch)}}

\* .split('\n').map(b => b.trim()).filter(Boolean)
MergedNames(stableBranch) ==
  {Trim(l) : l \in Range(MergedLines(LocalBranches, stableBranch))} \ {<<>>}

\* difference(branches, mergedBranches)
getUnmergedBranches(branches, stableBranch) ==
  LET unmerged(b) == <<b>> \notin MergedNames(stableBranch)
  IN SelectSeq(branches, unmerged)

\* ['push', ...(forcePush ? ['--force'] : []), remote].concat(branches)
PushArgs(branches, forcePush, remoteName) ==
  <<"push">> \o (IF forcePush THEN <<"--force">> ELSE <<>>) \o <<remoteName>>
  \o branches

\* The --range strings of the push command: those above and some that hold
\* a range among other characters.
PushRangeStrings ==
  RangeStrings
  \cup {<<"x", "0", ".", ".", "1">>, <<"1", ".", ".", "1", "x">>,
        <<"-", "1", ".", ".", "1">>, <<"0", ".", "1">>, <<"1", ".", ".">>,
        <<"1", "0", ".", ".", "1", "1">>}

\* The push command: PRTrainClient.create, then findAndPushBranches up to
\* the call of getUnmergedBranches or pushBranches.
PushStart ==
  /\ ppc = "idle"
  /\ \E pushMerged \in BOOLEAN, force \in BOOLEAN, rangeString \in PushRangeStrings :
       /\ pushOpts' = [pushMerged |-> pushMerged, force |-> force,
                       range |-> rangeString]
       /\ IF RangeFails(rangeString)
            THEN /\ ppc' = "threw"
                 /\ UNCHANGED <<requested, branchesToPush>>
            ELSE /\ requested' = requestedBranches(rangeString)
                 /\ branchesToPush' = requestedBranches(rangeString)
                 /\ ppc' = IF pushMerged THEN "push" ELSE "unmerged"
  /\ currentBranch' = head
  /\ UNCHANGED <<sortedTrainBranches, combinedTrainBranch, rvars, failures, uvars,
                 svars, gitLog, kvars, fvars, mvars>>

\* branchesToPush = await this.git.getUnmergedBranches(branchesToPush, stableBranch)
PushFilter ==
  /\ ppc = "unmerged"
  /\ branchesToPush' = getUnmergedBranches(branchesToPush, StableBranch)
  /\ ppc' = "push"
  /\ UNCHANGED <<cvars, rvars, failures, uvars, svars, pushOpts, requested, gitLog,
                 kvars, fvars, mvars>>

\* await this.git.pushBranches(branchesToPush, force, remote)
PushBranches ==
  /\ ppc = "push"
  /\ \E ok \in BOOLEAN :
       /\ gitLog' = Append(gitLog,
                           [args |-> PushArgs(branchesToPush, pushOpts.force,
                                              DefaultRemote),
                            ok |-> ok])
       /\ ppc' = IF ok THEN "done" ELSE "threw"
  /\ UNCHANGED <<cvars, rvars, failures, uvars, svars, pushOpts, requested,
                 branchesToPush, kvars, fvars, mvars>>

PushInit ==
  /\ sortedTrainBranches \in ReflowTrains
  /\ head \in Range(sortedTrainBranches)
  /\ currentBranch = head
  /\ combinedTrainBranch = Undefined
  /\ anc = InitialCommits
  /\ tip \in [Range(LocalBranches) -> DOMAIN InitialCommits]
  /\ \A b \in BranchNames \ Range(sortedTrainBranches) : tip[b] = 0
  /\ wtConflict = FALSE
  /\ rebase = FALSE
  /\ rpc = "idle"
  /\ ri = 0
  /\ rlog = <<>>
  /\ prevOk = FALSE
  /\ runs = 0
  /\ failures = 0
  /\ UpsertIdle
  /\ SyncIdle
  /\ PushIdle

PushNext ==
  \/ PushStart
  \/ PushFilter
  \/ PushBranches

SpecPush == PushInit /\ [][PushNext]_vars

\* ------------------------------------------- checkout, next and previous
\* An index argument: a number, or the word "combined".
Combined == [combined |-> TRUE, i |-> 0]
Index(n) == [combined |-> FALSE, i |-> n]

\* this.sortedTrainBranches.indexOf(this.currentBranch)
currentIndex ==
  IF currentBranch \in Range(sortedTrainBranches)
    THEN (CHOOSE k \in DOMAIN sortedTrainBranches :
            sortedTrainBranches[k] = currentBranch) - 1
    ELSE -1

\* variant: the index counts from 1
branchNameAtIndexFromOne(i) ==
  IF i.combined THEN combinedTrainBranch
  ELSE IF i.i \in 1..Len(sortedTrainBranches) THEN sortedTrainBranches[i.i]
  ELSE Undefined

\* branchNameAtIndex up to "if (!branch)": the combined branch, or the array
\* element, which is undefined outside 0..length-1
branchNameAtIndex(i) ==
  IF i.combined THEN combinedTrainBranch
  ELSE IF i.i \in 0..(Len(sortedTrainBranches) - 1) THEN sortedTrainBranches[i.i + 1]
  ELSE Undefined

\* The commands that resolve an index: checkout <index>, previous, next,
\* info previous, info next; PRTrainClient.create comes first.
SwitchStart ==
  /\ kpc = "idle"
  /\ currentBranch' = head
  /\ UNCHANGED <<sortedTrainBranches, combinedTrainBranch, rvars, failures, uvars,
                 svars, ppc, pushOpts, requested, branchesToPush, gitLog, kBranch,
                 fvars, mvars>>
  /\ \E cmd \in {"checkout", "previous", "next", "info previous", "info next"} :
       /\ kCmd' = cmd
       /\ IF cmd = "checkout"
            THEN \E i \in {Combined} \cup {Index(n) : n \in 0..MaxIndex} : kIndex' = i
            ELSE IF cmd \in {"previous", "info previous"}
              THEN kIndex' = Index(currentIndex' - 1)
              ELSE kIndex' = Index(currentIndex' + 1)
  /\ kpc' = "resolve"

\* branchNameAtIndex: if (!branch) { console.log(...); process.exit(3); }
SwitchResolve ==
  /\ kpc = "resolve"
  /\ kBranch' = branchNameAtIndex(kIndex)
  /\ kpc' = IF branchNameAtIndex(kIndex) = Undefined THEN "exit3"
            ELSE IF kCmd \in {"info previous", "info next"} THEN "printed"
            ELSE "checkout"
  /\ UNCHANGED <<cvars, rvars, failures, uvars, svars, ppc, pushOpts, requested,
                 branchesToPush, gitLog, kCmd, kIndex, fvars, mvars>>

\* switchToBranch: await this.sg.checkout(targetBranch); process.exit(0)
SwitchCheckout ==
  /\ kpc = "checkout"
  /\ \E ok \in BOOLEAN :
       /\ head' = IF ok THEN kBranch ELSE head
       /\ kpc' = IF ok THEN "exit0" ELSE "threw"
  /\ UNCHANGED <<cvars, anc, tip, wtConflict, rebase, rpc, ri, rlog, prevOk, runs,
                 failures, uvars, svars, ppc, pushOpts, requested, branchesToPush,
                 gitLog, kCmd, kIndex, kBranch, fvars, mvars>>

SwitchInit ==
  /\ sortedTrainBranches \in ReflowTrains
  /\ head \in Range(sortedTrainBranches)
  /\ currentBranch = head
  /\ combinedTrainBranch \in {Undefined} \cup Range(sortedTrainBranches)
  /\ anc = <<>>
  /\ tip = <<>>
  /\ wtConflict = FALSE
  /\ rebase = FALSE
  /\ rpc = "idle"
  /\ ri = 0
  /\ rlog = <<>>
  /\ prevOk = FALSE
  /\ runs = 0
  /\ failures = 0
  /\ UpsertIdle
  /\ SyncIdle
  /\ PushIdle

SwitchNext ==
  \/ SwitchStart
  \/ SwitchResolve
  \/ SwitchCheckout

SpecSwitch == SwitchInit /\ [][SwitchNext]_vars

\* ------------------------------------- claims about checkout/next/previous
\* C18: an index i with 0 <= i < N resolves to the i-th branch, "combined"
\* to the combined branch when there is one; every other request (an index
\* of N or more, the -1 of `previous` on the first branch, the N of `next`
\* on the last, "combined" without a combined branch) ends in the not-found
\* exit with nothing checked out.
C18_BranchAtIndex ==
  kpc \notin {"idle", "resolve"} =>
    LET n == Len(sortedTrainBranches)
        found == IF kIndex.combined THEN combinedTrainBranch # Undefined
                 ELSE kIndex.i >= 0 /\ kIndex.i < n
    IN IF found
         THEN /\ kpc # "exit3"
              /\ kBranch = IF kIndex.combined THEN combinedTrainBranch
                           ELSE sortedTrainBranches[kIndex.i + 1]
              /\ kpc = "exit0" => head = kBranch
         ELSE kpc = "exit3" /\ head = currentBranch

\* `previous` on the first branch of a train of three ended in the
\* not-found exit.
C18_Witness ==
  /\ kpc = "exit3"
  /\ kCmd = "previous"
  /\ kIndex = Index(-1)
  /\ Len(sortedTrainBranches) = 3
  /\ head = sortedTrainBranches[1]

\* ------------------------------------------------------ claims about push
\* The one push command names the remote and the branches to push, with the
\* force flag exactly when force was asked for.
OnePushOfAll ==
  /\ Len(gitLog) = 1
  /\ LET args == gitLog[1].args
         n == Len(branchesToPush)
     IN /\ args[1] = "push"
        /\ SubSeq(args, Len(args) - n, Len(args)) = <<DefaultRemote>> \o branchesToPush
        /\ Len(args) = n + 2 + (IF pushOpts.force THEN 1 ELSE 0)
        /\ pushOpts.force <=> args[2] = "--force"

\* C16: pushing an empty list of branches issues no git push; pushing a
\* list that is not empty issues one push of the remote and all the
\* branches, forced if and only if force is set.
C16_PushWhatIsToPush ==
  ppc \in {"done", "threw"} /\ ~RangeFails(pushOpts.range) =>
    IF branchesToPush = <<>> THEN gitLog = <<>> ELSE OnePushOfAll

\* C17: the branches the filter leaves are the requested branches that the
\* stable branch does not reach, in the order requested, whichever branch
\* is checked out.
C17_UnmergedOnly ==
  ppc = "push" /\ ~pushOpts.pushMerged =>
    LET unmerged(b) == ~isBranchAncestor(b, StableBranch)
    IN branchesToPush = SelectSeq(requested, unmerged)

\* The whole string is digits, two dots, digits.
IsStartEnd(str) ==
  \E j \in 1..(Len(str) - 3) :
    /\ \A k \in 1..j : IsDigit(str[k])
    /\ str[j + 1] = "." /\ str[j + 2] = "."
    /\ \A k \in (j + 3)..Len(str) : IsDigit(str[k])

\* The train branches with the indices s..e of the string s..e.
BranchesInRange(str) ==
  LET j == DigitsEnd(str, 1)
      s == ParseInt(SubSeq(str, 1, j))
      e == ParseInt(SubSeq(str, j + 3, Len(str)))
      inRange(b) == TrainIndex(b) - 1 >= s /\ TrainIndex(b) - 1 <= e
  IN SelectSeq(sortedTrainBranches, inRange)

\* C19: with the range s..e, push works on the train branches of index
\* s, ..., e (none when s > e); without a range, on the whole train; a
\* range string of any other form raises an error and nothing is pushed.
C19_RangeIsInclusive ==
  ppc # "idle" =>
    IF pushOpts.range = NoRange THEN requested = sortedTrainBranches
    ELSE IF IsStartEnd(pushOpts.range)
      THEN requested = BranchesInRange(pushOpts.range)
      ELSE ppc = "threw" /\ gitLog = <<>>

\* ---------------------------------------------------- PRTrainClient.create
\* An entry of a train's list in .pr-train.yml: a branch name, or an object
\* with the name as its one key and {combined: ...} as the value.
StringCfg(b) == [name |-> b, isString |-> TRUE, combined |-> FALSE]
ObjectCfg(b, c) == [name |-> b, isString |-> FALSE, combined |-> c]
BranchCfgs(b) == {StringCfg(b), ObjectCfg(b, FALSE), ObjectCfg(b, TRUE)}

\* The lists over the leading names of NameOrder.
TrainCfgs ==
  UNION {{cfg \in [1..n -> UNION {BranchCfgs(b) : b \in BranchNames}] :
            \A k \in 1..n : cfg[k].name = NameOrder[k]} :
         n \in 1..Min(MaxTrainLen, Len(NameOrder))}

\* typeof branchCfg === 'string' ? branchCfg : Object.keys(branchCfg)[0]
getBranchName(branchCfg) == branchCfg.name

\* branchConfig.map(b => getBranchName(b))
getBranchesInCurrentTrain(branchConfig) ==
  [k \in DOMAIN branchConfig |-> getBranchName(branchConfig[k])]

\* branchConfig.find(cfg => typeof cfg !== 'string' && cfg[name].combined):
\* the name of the first entry flagged combined, or undefined
getCombinedBranch(branchConfig) ==
  LET flagged == {k \in DOMAIN branchConfig :
                    ~branchConfig[k].isString /\ branchConfig[k].combined}
  IN IF flagged = {} THEN Undefined ELSE getBranchName(branchConfig[SetMin(flagged)])

\* getBranchesConfigInCurrentTrain: the train that holds the current branch;
\* without one, create prints a message and exits with code 1.
CreateFind ==
  /\ fpc = "idle"
  /\ fpc' = IF head \in Range(getBranchesInCurrentTrain(trainCfg))
              THEN "found" ELSE "exit1"
  /\ currentBranch' = head
  /\ UNCHANGED <<sortedTrainBranches, combinedTrainBranch, rvars, failures, uvars,
                 svars, ppc, pushOpts, requested, branchesToPush, gitLog, kvars,
                 trainCfg, localBranches, mvars>>

\* The rest of create: the branch list, the combined branch, and
\* `git branch <combined> <last branch before it>` when it does not exist.
CreateResolve ==
  /\ fpc = "found"
  /\ sortedTrainBranches' = getBranchesInCurrentTrain(trainCfg)
  /\ combinedTrainBranch' = getCombinedBranch(trainCfg)
  /\ LET combined == getCombinedBranch(trainCfg)
     IN IF combined # Undefined /\ combined \notin localBranches
          THEN IF Len(trainCfg) >= 2
                 THEN /\ localBranches' = localBranches \cup {combined}
                      /\ fpc' = "created"
                 ELSE /\ fpc' = "threw"
                      /\ UNCHANGED localBranches
          ELSE /\ fpc' = "created"
               /\ UNCHANGED localBranches
  /\ UNCHANGED <<currentBranch, rvars, failures, uvars, svars, ppc, pushOpts,
                 requested, branchesToPush, gitLog, kvars, trainCfg, mvars>>

ConfigInit ==
  /\ trainCfg \in TrainCfgs
  /\ head \in BranchNames
  /\ localBranches \in {Range(getBranchesInCurrentTrain(trainCfg)) \cup {head},
                        (Range(getBranchesInCurrentTrain(trainCfg))
                           \ {getCombinedBranch(trainCfg)}) \cup {head}}
  /\ fpc = "idle"
  /\ sortedTrainBranches = <<>>
  /\ currentBranch = ""
  /\ combinedTrainBranch = Undefined
  /\ anc = <<>>
  /\ tip = <<>>
  /\ wtConflict = FALSE
  /\ rebase = FALSE
  /\ rpc = "idle"
  /\ ri = 0
  /\ rlog = <<>>
  /\ prevOk = FALSE
  /\ runs = 0
  /\ failures = 0
  /\ UpsertIdle
  /\ SyncIdle
  /\ ppc = "idle"
  /\ pushOpts = <<>>
  /\ requested = <<>>
  /\ branchesToPush = <<>>
  /\ gitLog = <<>>
  /\ kpc = "idle"
  /\ kCmd = ""
  /\ kIndex = <<>>
  /\ kBranch = ""
  /\ MainIdle

ConfigNext ==
  \/ CreateFind
  \/ CreateResolve

SpecConfig == ConfigInit /\ [][ConfigNext]_vars

\* C20: in the train create resolves from a configuration, the branch
\* treated as combined, if any, is the last branch of the list.
C20_CombinedIsLast ==
  fpc \in {"created", "threw"} =>
    \/ combinedTrainBranch = Undefined
    \/ combinedTrainBranch = sortedTrainBranches[Len(sortedTrainBranches)]

\* ----------------------------------------------------- main() of index.ts
\* One invocation of the command whose stages follow one another in main():
\* with --create-prs the push and then the PR sync, otherwise the reflow
\* loop, the push when --push or --push-merged is given, and the checkout of
\* the branch the invocation started on. No branch argument, no --list,
\* no --init.
MainOp(op, res) == [op |-> op, during |-> pending, res |-> res]

GitOutcomes == IF failures < MaxFailures THEN BOOLEAN ELSE {TRUE}

\* git.pushBranches(branchesToPush, force, remote), a call main's chain of
\* awaits does not hold: its promise is pending when findAndPushBranches
\* returns.
PushLeft == {"push"}

MainStart ==
  /\ mpc = "idle"
  /\ \E createPrs \in BOOLEAN, push \in BOOLEAN, pushMerged \in BOOLEAN,
        force \in BOOLEAN, r \in BOOLEAN :
       \* each flag is drawn only where the code reads it
       /\ createPrs => ~r /\ ~push
       /\ ~createPrs /\ ~push /\ ~pushMerged => ~force
       /\ mOpts' = [createPrs |-> createPrs, push |-> push,
                    pushMerged |-> pushMerged, force |-> force]
       /\ rebase' = r
       /\ IF createPrs
            THEN /\ mpc' = "findPush"
                 /\ UNCHANGED <<rpc, rlog>>
            ELSE /\ mpc' = "reflow"
                 /\ rpc' = "loop"
                 /\ rlog' = <<[e |-> "start", i |-> 0, res |-> head]>>
  /\ currentBranch' = head
  /\ ri' = 0
  /\ UNCHANGED <<sortedTrainBranches, combinedTrainBranch, head, anc, tip,
                 wtConflict, prevOk, runs, failures, uvars, svars, ppc, pushOpts,
                 requested, branchesToPush, gitLog, kvars, fvars, pending, mlog>>

\* if (program.push || program.pushMerged), reached when the loop is over
MainLoopEnd ==
  /\ mpc = "reflow"
  /\ rpc = "restore"
  /\ mpc' = IF mOpts.push \/ mOpts.pushMerged THEN "findPush" ELSE "restore"
  /\ UNCHANGED <<cvars, rvars, failures, uvars, svars, ppc, pushOpts, requested,
                 branchesToPush, gitLog, kvars, fvars, mOpts, pending, mlog>>

\* findAndPushBranches up to the call of pushBranches
MainFindBranches ==
  /\ mpc = "findPush"
  /\ IF mOpts.pushMerged
       THEN /\ branchesToPush' = sortedTrainBranches
            /\ mpc' = "push"
            /\ UNCHANGED <<mlog, failures>>
       ELSE \E ok \in GitOutcomes :
              /\ mlog' = Append(mlog, MainOp("branch --merged", ok))
              /\ failures' = IF ok THEN failures ELSE failures + 1
              /\ mpc' = IF ok THEN "push" ELSE "threw"
              /\ branchesToPush' =
                   IF ok THEN getUnmergedBranches(sortedTrainBranches, StableBranch)
                   ELSE branchesToPush
  /\ UNCHANGED <<cvars, rvars, uvars, svars, ppc, pushOpts, requested, gitLog,
                 kvars, fvars, mOpts, pending>>

\* git.pushBranches(...) is called and findAndPushBranches returns
MainPushIssue ==
  /\ mpc = "push"
  /\ gitLog' = Append(gitLog, [args |-> PushArgs(branchesToPush, mOpts.force,
                                                  DefaultRemote)])
  /\ mlog' = Append(mlog, MainOp("push", TRUE))
  /\ pending' = pending \cup PushLeft
  /\ mpc' = IF mOpts.createPrs THEN "sync" ELSE "restore"
  /\ UNCHANGED <<cvars, rvars, failures, uvars, svars, ppc, pushOpts, requested,
                 branchesToPush, kvars, fvars, mOpts>>

\* The push command ends; when it failed nothing handles the rejection.
PushSettle ==
  /\ "push" \in pending
  /\ pending' = pending \ {"push"}
  /\ \E ok \in GitOutcomes :
       /\ mlog' = Append(mlog, [op |-> "push settled", during |-> {}, res |-> ok])
       /\ failures' = IF ok THEN failures ELSE failures + 1
  /\ UNCHANGED <<cvars, rvars, uvars, svars, ppc, pushOpts, requested,
                 branchesToPush, gitLog, kvars, fvars, mpc, mOpts>>

\* ensurePrsExist: sg.raw(['config', '--get', `remote.${remote}.url`])
MainSyncConfig ==
  /\ mpc = "sync"
  /\ \E ok \in GitOutcomes :
       /\ mlog' = Append(mlog, MainOp("config --get", ok))
       /\ failures' = IF ok THEN failures ELSE failures + 1
       /\ mpc' = IF ok THEN "syncRemote" ELSE "threw"
  /\ UNCHANGED <<cvars, rvars, uvars, svars, ppc, pushOpts, requested,
                 branchesToPush, gitLog, kvars, fvars, mOpts, pending>>

\* ensurePrsExist: the first call to GitHub, the lookup of the first branch
MainSyncRemote ==
  /\ mpc = "syncRemote"
  /\ mlog' = Append(mlog, MainOp("lookup", TRUE))
  /\ mpc' = "done"
  /\ UNCHANGED <<cvars, rvars, failures, uvars, svars, ppc, pushOpts, requested,
                 branchesToPush, gitLog, kvars, fvars, mOpts, pending>>

\* await sg.checkout(currentBranch)
MainRestore ==
  /\ mpc = "restore"
  /\ \E ok \in (IF wtConflict THEN {FALSE} ELSE GitOutcomes) :
       /\ head' = IF ok THEN currentBranch ELSE head
       /\ failures' = IF ok \/ wtConflict THEN failures ELSE failures + 1
       /\ mlog' = Append(mlog, MainOp("checkout", ok))
       /\ mpc' = IF ok THEN "done" ELSE "threw"
  /\ UNCHANGED <<cvars, anc, tip, wtConflict, rebase, rpc, ri, rlog, prevOk, runs,
                 uvars, svars, ppc, pushOpts, requested, branchesToPush, gitLog,
                 kvars, fvars, mOpts, pending>>

MainNext ==
  \/ MainStart
  \/ ReflowLoop
  \/ CombineTry
  \/ CombineLockWait
  \/ CombineRetry
  \/ ReflowStepWait
  \/ MainLoopEnd
  \/ MainFindBranches
  \/ MainPushIssue
  \/ PushSettle
  \/ MainSyncConfig
  \/ MainSyncRemote
  \/ MainRestore

SpecMain == PushInit /\ [][MainNext]_vars

\* ------------------------------------------------------- claims about main
\* C22: no git or network operation is started while another one is in
\* flight; in particular the push has ended when the sync makes its first
\* remote call and when the original branch is checked out again.
C22_OneOperationInFlight ==
  \A k \in DOMAIN mlog : mlog[k].during = {}

\* The last try of each combine of the run.
LastTries ==
  {k \in DOMAIN rlog :
     IsAttempt(k) /\ (k = Len(rlog) \/ rlog[k + 1].e # "sleepLock")}

\* C23: when the invocation issues a push command after its reflow loop,
\* every combine of the loop ended in a try that succeeded.
C23_NoPushAfterFailedCombine ==
  gitLog # <<>> => \A k \in LastTries : rlog[k].res = "ok"

\* ------------------------------------------------- the ways a command ends
\* One invocation of a command of main() (part_000): initGit, then the
\* command's action: PRTrainClient.create, then for create-prs the key
\* check and GitHubClient.ensurePrsExist up to the parsing of the remote
\* URL, for checkout the resolution of the index. Each file and each answer
\* is drawn where the code reads it.
Exit(site, code) == [op |-> "exit", during |-> {}, res |-> code, site |-> site]

CmdExit(site, code) ==
  /\ mlog' = Append(mlog, Exit(site, code))
  /\ mpc' = "exited"

CmdGoOn(to) ==
  /\ mpc' = to
  /\ UNCHANGED mlog

CmdFrame ==
  UNCHANGED <<cvars, rvars, failures, uvars, svars, ppc, pushOpts, requested,
              branchesToPush, gitLog, kvars, fvars, mOpts, pending>>

CmdStart ==
  /\ mpc \in {"idle", "exited", "ran"}
  /\ Len(mlog) < MaxRuns
  /\ \E cmd \in {"create-prs", "checkout", "list"}, n \in 0..MaxIndex :
       /\ cmd # "checkout" => n = 0
       /\ mOpts' = [cmd |-> cmd, index |-> Index(n)]
  /\ mpc' = "initGit"
  /\ UNCHANGED <<cvars, rvars, failures, uvars, svars, ppc, pushOpts, requested,
                 branchesToPush, gitLog, kvars, fvars, pending, mlog>>

\* initGit: if (!(await sg.checkIsRepo())) process.exit(1)
CmdInitGit ==
  /\ mpc = "initGit"
  /\ \E isRepo \in BOOLEAN :
       IF isRepo THEN CmdGoOn("loadConfig")
       ELSE CmdExit("not a git repository", 1)
  /\ CmdFrame

\* loadConfigOrExit: a YAMLException, or any other error of loadConfig
CmdLoadConfig ==
  /\ mpc = "loadConfig"
  /\ \E config \in {"ok", "malformed", "missing"} :
       IF config = "malformed" THEN CmdExit("malformed config", 1)
       ELSE IF config = "missing" THEN CmdExit("missing config", 1)
       ELSE CmdGoOn("findTrain")
  /\ CmdFrame

\* PRTrainClient.create: if (!trainCfg) process.exit(1), then the command
CmdFindTrain ==
  /\ mpc = "findTrain"
  /\ \E onTrain \in BOOLEAN :
       IF ~onTrain THEN CmdExit("not a train branch", 1)
       ELSE IF mOpts.cmd = "create-prs" THEN CmdGoOn("keyCheck")
       ELSE IF mOpts.cmd = "checkout" THEN CmdGoOn("resolve")
       ELSE CmdGoOn("ran")
  /\ CmdFrame

\* checkGHKeyExists: readGHKey() throws, process.exit(4)
CmdKeyCheck ==
  /\ mpc = "keyCheck"
  /\ \E keyExists \in BOOLEAN :
       IF keyExists THEN CmdGoOn("remoteUrl")
       ELSE CmdExit("missing credential file", 4)
  /\ CmdFrame

\* ensurePrsExist: if (!remoteUrl) process.exit(4)
CmdRemoteUrl ==
  /\ mpc = "remoteUrl"
  /\ \E found \in BOOLEAN :
       IF found THEN CmdGoOn("prompts")
       ELSE CmdExit("remote URL not found", 4)
  /\ CmdFrame

\* ensurePrsExist: the title of the combined branch's PR, the confirmation
CmdPrompts ==
  /\ mpc = "prompts"
  /\ \E title \in {<<>>, <<"all of it">>}, confirm \in BOOLEAN :
       IF combinedTrainBranch # Undefined /\ title = <<>>
         THEN CmdExit("no title", 5)
       ELSE IF ~confirm THEN CmdExit("not confirmed", 0)
       ELSE CmdGoOn("parseUrl")
  /\ CmdFrame

\* ensurePrsExist: remoteUrl.match(/github\.com[/:](.*)\.git/) fails,
\* process.exit(4)
CmdParseUrl ==
  /\ mpc = "parseUrl"
  /\ \E parses \in BOOLEAN :
       IF parses THEN CmdGoOn("ran")
       ELSE CmdExit("unparseable remote URL", 4)
  /\ CmdFrame

\* switchToBranch: branchNameAtIndex exits with 3, or the checkout is made
\* and process.exit(0) follows
CmdResolve ==
  /\ mpc = "resolve"
  /\ IF branchNameAtIndex(mOpts.index) = Undefined
       THEN CmdExit("unresolvable branch index", 3)
       ELSE CmdExit("switched", 0)
  /\ CmdFrame

CmdNext ==
  \/ CmdStart
  \/ CmdInitGit
  \/ CmdLoadConfig
  \/ CmdFindTrain
  \/ CmdKeyCheck
  \/ CmdRemoteUrl
  \/ CmdPrompts
  \/ CmdParseUrl
  \/ CmdResolve

SpecCmd == SwitchInit /\ [][CmdNext]_vars

\* The fatal preconditions and the family of errors each belongs to.
FatalPreconditions ==
  {"not a git repository", "missing config", "missing credential file",
   "unresolvable branch index", "unparseable remote URL"}

Family(site) ==
  CASE site = "not a git repository" -> "precondition"
    [] site = "unparseable remote URL" -> "precondition"
    [] site = "missing config" -> "configuration"
    [] site = "missing credential file" -> "credential"
    [] site = "unresolvable branch index" -> "index"

\* C24: an invocation that ends on a fatal precondition exits with a code
\* other than 0, and two invocations that end on preconditions of different
\* families exit with different codes.
C24_ExitCodePerFamily ==
  \A j, k \in DOMAIN mlog :
    mlog[j].site \in FatalPreconditions /\ mlog[k].site \in FatalPreconditions =>
      /\ mlog[j].res # 0
      /\ Family(mlog[j].site) # Family(mlog[k].site) => mlog[j].res # mlog[k].res

====
